---- MODULE Spec2Model ----
(***************************************************************************)
(* Cache-coherence and realtime-propagation layer of the CRM portal:       *)
(* the Kanban task board (task-board.tsx) with its optimistic drag and     *)
(* drop, the realtime handlers of the tasks and leads pages, the           *)
(* useSupabaseRealtime hook and the namespace-based response cache.        *)
(***************************************************************************)
EXTENDS Integers, Sequences, FiniteSets, TLC

(***************************************************************************)
(* Bounds of the model.                                                    *)
(***************************************************************************)
MaxPeerWrites == 1
MaxDrops == 1
MaxMoves == 2
MaxMounts == 3
MaxWrites == 1
MaxTicks == 3
MaxClicks == 3
MaxRenders == 1
MaxPageWrites == 2
MaxCopies == 1
MaxDashWrites == 2

(***************************************************************************)
(* Tasks, statuses and the board's columns.                                *)
(***************************************************************************)
Clients == {1, 2}
TaskIds == {1, 2}

\* task-board.tsx columns: the four Kanban columns, in display order
columns == <<"todo", "in_progress", "review", "completed">>

columnsId == {columns[i] : i \in DOMAIN columns}

\* the status values the tasks table admits (DATABASE_SCHEMA.md)
TaskStatuses == {"todo", "in_progress", "review", "completed", "cancelled"}

\* the statuses other users write in the model: a column and the off-board status
PeerStatuses == {"review", "cancelled"}

NoTask == [id |-> 0, status |-> "none"]

Task(i, s) == [id |-> i, status |-> s]

VARIABLES
    mounted,     \* the clients that have the tasks page open
    tasks,       \* tasks[c]: the page's task list (useState<Task[]>)
    activeTask,  \* activeTask[c]: the task captured by onDragStart, or NoTask
    calls,       \* calls[c]: the updateTask calls awaiting their response
    drops,       \* drops[c]: number of updateTask calls issued so far
    toasts,      \* toasts[c]: how many success and error toasts were shown
    crashed,     \* crashed[c]: a state updater threw while rendering
    server,      \* server[i]: the committed status of task i, or "absent"
    peerWrites,  \* number of writes other users have committed so far
    queue        \* queue[c]: ChangeEvents emitted to c and not yet delivered

boardVars == <<mounted, tasks, activeTask, calls, drops, toasts, crashed, server,
               peerWrites, queue>>

VARIABLES
    mergePage,     \* the page whose handlers are applied, or "none"
    mergeList,     \* the page's list
    mergeEvent,    \* the ChangeEvent that is delivered
    mergeOnce,     \* the list as it was after the first delivery
    mergeApplied   \* how many times the event has been delivered

mergeVars == <<mergePage, mergeList, mergeEvent, mergeOnce, mergeApplied>>

VARIABLES
    chanStatus,  \* chanStatus[c]: the status last reported to the subscribe callback
    rejoined     \* rejoined[c]: the channel was re-established after a loss

linkVars == <<chanStatus, rejoined>>

VARIABLES
    library,     \* what client.channel(name) does for a topic that has a channel
    hooks,       \* hooks[h]: the props of hook instance h and the channel it holds
    channels,    \* the channels of the supabase client
    nextChan     \* number of channels created so far

hookVars == <<library, hooks, channels, nextChan>>

VARIABLES
    jobs,        \* jobs[m]: the invalidation job of the m-th committed write
    cache,       \* cache[ns]: the entry the cache store holds in namespace ns
    reader,      \* the read request in progress
    now,         \* the clock of the cache store, in ticks
    up           \* the cache backend is reachable

cacheVars == <<jobs, cache, reader, now, up>>

VARIABLES
    options,     \* options[h]: the events option and the callbacks hook h was given
    invoked      \* the payload received last and the callbacks invoked for it

fanVars == <<options, invoked>>

VARIABLES
    keyStore,    \* the keys the cache store holds, each with the request that stored it
    response     \* the response to the keyed read served last

keyVars == <<keyStore, response>>

VARIABLES
    button,      \* the props and the internalLoading state of an AsyncButton
    presses      \* presses[k]: what became of the k-th click on the button

buttonVars == <<button, presses>>

VARIABLES
    pgView,      \* the component that holds the list: the tasks page or the project dialog
    pgTasks,     \* its tasks state
    pgServer,    \* pgServer[i]: the status of task i in the tasks table, or "absent"
    pgInbox,     \* the events sent to its channel and not yet handled
    pgJoined,    \* the server has registered its subscription
    pgFetches,   \* the getTasks requests of loadTasks in flight
    pgReplies,   \* the createTask responses AddTaskDialog has not yet passed to onSuccess
    pgWrites,    \* number of writes committed
    pgCopies     \* number of events the channel delivered a second time

pageVars == <<pgView, pgTasks, pgServer, pgInbox, pgJoined, pgFetches, pgReplies,
              pgWrites, pgCopies>>

VARIABLES
    dashServer,    \* the version of the data the dashboard endpoints report
    dashEvents,    \* realtime events sent to the dashboard and not yet handled
    stats,         \* the stats displayed: the reload that set them and its data
    isRefreshing,  \* the isRefreshing state
    reloads,       \* the loadData calls in flight
    issued         \* number of loadData calls made

dashVars == <<dashServer, dashEvents, stats, isRefreshing, reloads, issued>>

vars == <<boardVars, mergeVars, linkVars, hookVars, cacheVars, fanVars, keyVars, buttonVars, pageVars, dashVars>>

(***************************************************************************)
(* Pure helpers.                                                           *)
(***************************************************************************)
\* Array.prototype.findIndex on the task id, as a 0-based index (-1: none)
RECURSIVE findIndexFrom(_, _, _)
findIndexFrom(arr, id, k) ==
    IF k > Len(arr) THEN -1
    ELSE IF arr[k].id = id THEN k - 1
    ELSE findIndexFrom(arr, id, k + 1)

findIndex(arr, id) == findIndexFrom(arr, id, 1)

\* number of entries of the list that carry the id
Count(arr, id) == Cardinality({k \in DOMAIN arr : arr[k].id = id})

Min(a, b) == IF a < b THEN a ELSE b

\* Array.prototype.splice(start, 0, item) with a non-negative start
spliceIn(arr, start, item) ==
    LET s == Min(start, Len(arr))
    IN SubSeq(arr, 1, s) \o <<item>> \o SubSeq(arr, s + 1, Len(arr))

\* arr without its element at the 0-based index from
spliceOut(arr, from) ==
    SubSeq(arr, 1, from) \o SubSeq(arr, from + 2, Len(arr))

\* a move that inserts the element without removing it from its old place
arrayMoveCopies(arr, from, to) ==
    spliceIn(arr, IF to < 0 THEN Len(arr) + to ELSE to, arr[from + 1])

\* @dnd-kit/sortable arrayMove(array, from, to), 0-based indices: the target
\* index of a negative `to` is taken from the length before the removal
arrayMove(arr, from, to) ==
    LET target == IF to < 0 THEN Len(arr) + to ELSE to
    IN spliceIn(spliceOut(arr, from), target, arr[from + 1])

\* the tasks a column renders: tasks.filter(task => task.status === col.id)
ColumnTasks(arr, col) == SelectSeq(arr, LAMBDA t : t.status = col)

\* the cards of task id on the board: its entries in the lists the columns render
Cards(arr, id) ==
    UNION {{<<col, k>> : k \in {j \in DOMAIN ColumnTasks(arr, col) :
                                   ColumnTasks(arr, col)[j].id = id}} : col \in columnsId}

\* the columns in which task id is shown
ColumnsOf(arr, id) == {x[1] : x \in Cards(arr, id)}

\* the list the server answers GET /tasks with (by id)
RECURSIVE ServerList(_, _)
ServerList(srv, i) ==
    IF i \notin TaskIds THEN <<>>
    ELSE (IF srv[i] = "absent" THEN <<>> ELSE <<Task(i, srv[i])>>)
         \o ServerList(srv, i + 1)

(***************************************************************************)
(* Realtime handlers of the tasks page.                                    *)
(***************************************************************************)
onInsert(prev, payload) == <<payload.new>> \o prev

\* a handler that adds the updated row instead of replacing the stale one
onUpdateAdds(prev, payload) == <<payload.new>> \o prev

\* a handler that drops the update
onUpdateIgnores(prev, payload) == prev

onUpdate(prev, payload) ==
    [k \in DOMAIN prev |->
        IF prev[k].id = payload.new.id THEN payload.new ELSE prev[k]]

onDelete(prev, payload) == SelectSeq(prev, LAMBDA t : t.id # payload.old.id)

\* the hook's fan-out by eventType (the tasks page passes no events option)
Dispatch(prev, payload) ==
    IF payload.eventType = "INSERT" THEN onInsert(prev, payload)
    ELSE IF payload.eventType = "UPDATE" THEN onUpdate(prev, payload)
    ELSE IF payload.eventType = "DELETE" THEN onDelete(prev, payload)
    ELSE prev

\* the old row of an event: the handlers read its id only
OldRow(i) == [id |-> i, status |-> "none"]

Event(type, new, old) == [eventType |-> type, new |-> new, old |-> old]

\* the bus appends the event to the queue of every subscribed client
Emit(q, ev) ==
    [c \in Clients |->
        IF c \in mounted /\ chanStatus[c] = "SUBSCRIBED" THEN Append(q[c], ev) ELSE q[c]]

(***************************************************************************)
(* The task board: drag and drop (task-board.tsx).                         *)
(***************************************************************************)
\* what the pointer is over: nothing, a column, or a task card
NoOver == [type |-> "None", col |-> "none", task |-> 0]

OverColumn(col) == [type |-> "Column", col |-> col, task |-> 0]

OverTask(i) == [type |-> "Task", col |-> "none", task |-> i]

\* a card exists only for a list entry whose status is one of the columns
Rendered(arr, i) == \E k \in DOMAIN arr : arr[k].id = i /\ arr[k].status \in columnsId

OverTargets(arr) ==
    {NoOver} \cup {OverColumn(col) : col \in columnsId}
             \cup {OverTask(i) : i \in {j \in TaskIds : Rendered(arr, j)}}

Alive(c) == c \in mounted /\ ~crashed[c]

onDragStart(c, k) ==
    /\ Alive(c)
    /\ activeTask[c] = NoTask
    /\ k \in DOMAIN tasks[c]
    /\ tasks[c][k].status \in columnsId
    /\ activeTask' = [activeTask EXCEPT ![c] = tasks[c][k]]
    /\ UNCHANGED <<mounted, drops, tasks, calls, toasts, crashed, server,
                   peerWrites, queue>>

\* the state updater of onDragOver (lines 130-143), 0-based indices
DragOverUpdate(arr, activeId, overId) ==
    LET activeIndex == findIndex(arr, activeId)
        overIndex == findIndex(arr, overId)
    IN IF arr[activeIndex + 1].status # arr[overIndex + 1].status
       THEN arrayMove([arr EXCEPT ![activeIndex + 1].status = arr[overIndex + 1].status],
                      activeIndex, overIndex - 1)
       ELSE arrayMove(arr, activeIndex, overIndex)

\* tasks[activeIndex] or tasks[overIndex] is undefined: reading .status throws
DragOverThrows(arr, activeId, overId) ==
    findIndex(arr, activeId) = -1 \/ findIndex(arr, overId) = -1

onDragOver(c, over) ==
    /\ Alive(c)
    /\ activeTask[c] # NoTask
    /\ over \in OverTargets(tasks[c])
    /\ IF over.type = "Task" /\ over.task # activeTask[c].id
       THEN IF DragOverThrows(tasks[c], activeTask[c].id, over.task)
            THEN /\ crashed' = [crashed EXCEPT ![c] = TRUE]
                 /\ UNCHANGED tasks
            ELSE /\ tasks' = [tasks EXCEPT
                        ![c] = DragOverUpdate(tasks[c], activeTask[c].id, over.task)]
                 /\ UNCHANGED crashed
       ELSE UNCHANGED <<tasks, crashed>>
    /\ UNCHANGED <<mounted, drops, activeTask, calls, toasts, server,
                   peerWrites, queue>>

\* the status onDragEnd computes for the drop (lines 82-91)
DropStatus(arr, originalTask, over) ==
    IF over.type = "Column" THEN over.col
    ELSE IF over.type = "Task" /\ findIndex(arr, over.task) # -1
         THEN arr[findIndex(arr, over.task) + 1].status
    ELSE originalTask.status

\* the optimistic update (lines 95-97)
OptimisticTasks(arr, activeId, newStatus) ==
    [k \in DOMAIN arr |->
        IF arr[k].id = activeId THEN [arr[k] EXCEPT !.status = newStatus] ELSE arr[k]]

\* the updateTask call and what its closure holds: the list of the render the
\* drop happened in, and the task as it was when the drag started
Call(id, newStatus, snapshot, orig) ==
    [id |-> id, status |-> newStatus, tasks |-> snapshot, orig |-> orig, st |-> "sent"]

onDragEnd(c, over) ==
    /\ Alive(c)
    /\ activeTask[c] # NoTask
    /\ over \in OverTargets(tasks[c])
    /\ activeTask' = [activeTask EXCEPT ![c] = NoTask]
    /\ LET originalTask == activeTask[c]
           newStatus == DropStatus(tasks[c], originalTask, over)
       IN IF over.type # "None" /\ newStatus # originalTask.status
          THEN /\ drops' = [drops EXCEPT ![c] = drops[c] + 1]
               /\ tasks' = [tasks EXCEPT
                      ![c] = OptimisticTasks(tasks[c], originalTask.id, newStatus)]
               /\ calls' = [calls EXCEPT ![c] = Append(calls[c],
                      Call(originalTask.id, newStatus, tasks[c], originalTask.status))]
          ELSE UNCHANGED <<tasks, calls, drops>>
    /\ UNCHANGED <<mounted, toasts, crashed, server, peerWrites, queue>>

RemoveAt(s, i) == SubSeq(s, 1, i - 1) \o SubSeq(s, i + 1, Len(s))

\* the server commits the PATCH /tasks/{id} of call i and the bus emits the event
ServerCommit(c, i) ==
    /\ c \in mounted
    /\ i \in DOMAIN calls[c]
    /\ calls[c][i].st = "sent"
    /\ server[calls[c][i].id] # "absent"
    /\ LET call == calls[c][i]
       IN /\ server' = [server EXCEPT ![call.id] = call.status]
          /\ queue' = Emit(queue, Event("UPDATE", Task(call.id, call.status),
                                        OldRow(call.id)))
    /\ calls' = [calls EXCEPT ![c][i].st = "ok"]
    /\ UNCHANGED <<mounted, drops, tasks, activeTask, toasts, crashed, peerWrites>>

\* the await of updateTask resolves (lines 102-103)
ApiSuccess(c, i) ==
    /\ Alive(c)
    /\ i \in DOMAIN calls[c]
    /\ calls[c][i].st = "ok"
    /\ toasts' = [toasts EXCEPT ![c].success = @ + 1]
    /\ calls' = [calls EXCEPT ![c] = RemoveAt(calls[c], i)]
    /\ UNCHANGED <<mounted, drops, tasks, activeTask, crashed, server,
                   peerWrites, queue>>

\* what the catch block sets the list to (line 108)
Revert(call, current) == call.tasks

\* the await of updateTask rejects, the write was not committed (lines 104-109)
ApiFail(c, i) ==
    /\ Alive(c)
    /\ i \in DOMAIN calls[c]
    /\ calls[c][i].st = "sent"
    /\ toasts' = [toasts EXCEPT ![c].error = @ + 1]
    /\ tasks' = [tasks EXCEPT ![c] = Revert(calls[c][i], tasks[c])]
    /\ calls' = [calls EXCEPT ![c] = RemoveAt(calls[c], i)]
    /\ UNCHANGED <<mounted, drops, activeTask, crashed, server, peerWrites, queue>>

(***************************************************************************)
(* Writes of other users, and delivery of ChangeEvents.                    *)
(***************************************************************************)
PeerUpdate(i, s) ==
    /\ server[i] \notin {"absent", s}
    /\ peerWrites < MaxPeerWrites
    /\ server' = [server EXCEPT ![i] = s]
    /\ queue' = Emit(queue, Event("UPDATE", Task(i, s), OldRow(i)))
    /\ peerWrites' = peerWrites + 1
    /\ UNCHANGED <<mounted, drops, tasks, activeTask, calls, toasts, crashed>>

PeerInsert(i, s) ==
    /\ server[i] = "absent"
    /\ peerWrites < MaxPeerWrites
    /\ server' = [server EXCEPT ![i] = s]
    /\ queue' = Emit(queue, Event("INSERT", Task(i, s), NoTask))
    /\ peerWrites' = peerWrites + 1
    /\ UNCHANGED <<mounted, drops, tasks, activeTask, calls, toasts, crashed>>

PeerDelete(i) ==
    /\ server[i] # "absent"
    /\ peerWrites < MaxPeerWrites
    /\ server' = [server EXCEPT ![i] = "absent"]
    /\ queue' = Emit(queue, Event("DELETE", NoTask, OldRow(i)))
    /\ peerWrites' = peerWrites + 1
    /\ UNCHANGED <<mounted, drops, tasks, activeTask, calls, toasts, crashed>>

\* the channel callback runs for the oldest undelivered event
Deliver(c) ==
    /\ Alive(c)
    /\ queue[c] # <<>>
    /\ tasks' = [tasks EXCEPT ![c] = Dispatch(tasks[c], Head(queue[c]))]
    /\ queue' = [queue EXCEPT ![c] = Tail(queue[c])]
    /\ UNCHANGED <<mounted, drops, activeTask, calls, toasts, crashed, server,
                   peerWrites>>

(***************************************************************************)
(* The realtime handlers as functions of the list: the tasks page          *)
(* (onInsert, onUpdate, onDelete above) and the leads page.                *)
(***************************************************************************)
leadsOnInsert(current, payload) ==
    IF \E k \in DOMAIN current : current[k].id = payload.new.id
    THEN current
    ELSE <<payload.new>> \o current

leadsOnUpdate(current, payload) ==
    [k \in DOMAIN current |->
        IF current[k].id = payload.new.id THEN payload.new ELSE current[k]]

leadsOnDelete(current, payload) ==
    SelectSeq(current, LAMBDA lead : lead.id # payload.old.id)

LeadsDispatch(current, payload) ==
    IF payload.eventType = "INSERT" THEN leadsOnInsert(current, payload)
    ELSE IF payload.eventType = "UPDATE" THEN leadsOnUpdate(current, payload)
    ELSE IF payload.eventType = "DELETE" THEN leadsOnDelete(current, payload)
    ELSE current

Pages == {"tasks", "leads"}

PageDispatch(page, list, payload) ==
    IF page = "tasks" THEN Dispatch(list, payload) ELSE LeadsDispatch(list, payload)

\* rows of the lists and events the handlers are tried on
MergeStatuses == {"todo", "in_progress"}

MergeRows == {Task(i, s) : i \in TaskIds, s \in MergeStatuses}

\* the lists a fetch returns: no id twice
MergeLists ==
    {<<>>} \cup {<<r>> : r \in MergeRows}
           \cup {<<pr[1], pr[2]>> : pr \in {x \in MergeRows \X MergeRows : x[1].id # x[2].id}}

MergeEvents ==
    {Event("INSERT", r, NoTask) : r \in MergeRows}
        \cup {Event("UPDATE", r, OldRow(r.id)) : r \in MergeRows}
        \cup {Event("DELETE", NoTask, OldRow(i)) : i \in TaskIds}

NoEvent == Event("NONE", NoTask, NoTask)

MergeIdle ==
    /\ mergePage = "none"
    /\ mergeList = <<>>
    /\ mergeEvent = NoEvent
    /\ mergeOnce = <<>>
    /\ mergeApplied = 0

InitMerge ==
    /\ mergePage \in Pages
    /\ mergeList \in MergeLists
    /\ mergeEvent \in MergeEvents
    /\ mergeOnce = <<>>
    /\ mergeApplied = 0

\* the event is delivered (again): the page's handler runs on the list
ApplyEvent ==
    /\ mergePage \in Pages
    /\ mergeApplied < 2
    /\ mergeList' = PageDispatch(mergePage, mergeList, mergeEvent)
    /\ mergeOnce' = IF mergeApplied = 0 THEN mergeList' ELSE mergeOnce
    /\ mergeApplied' = mergeApplied + 1
    /\ UNCHANGED <<mergePage, mergeEvent>>

(***************************************************************************)
(* useSupabaseRealtime: one effect per hook instance creates a channel and *)
(* removes it on cleanup (use-supabase-realtime.ts lines 46-97).           *)
(***************************************************************************)
Hooks == {1, 2}

HookTables == {"tasks", "leads"}

\* the filter prop: undefined, or an equality filter on project_id
HookFilters == {"none", "project_id=eq.1"}

\* the channel name `realtime:${schema}.${table}`
Topic(schema, table) == <<"realtime", schema, table>>

\* client.channel(name) of the installed realtime client: either a new channel
\* for every call, or the channel that already has the topic
Libraries == {"new-per-call", "by-topic"}

Unmounted == [mounted |-> FALSE, table |-> "none", filter |-> "none", chan |-> 0]

HookIdle ==
    /\ library = "new-per-call"
    /\ hooks = [h \in Hooks |-> Unmounted]
    /\ channels = {}
    /\ nextChan = 0

InitHook ==
    /\ library \in Libraries
    /\ hooks = [h \in Hooks |-> Unmounted]
    /\ channels = {}
    /\ nextChan = 0

\* the channel the call client.channel(name) returns, 0 when it makes a new one
ExistingChannel(topic) ==
    IF library = "by-topic" /\ \E ch \in channels : ch.topic = topic
    THEN (CHOOSE ch \in channels : ch.topic = topic).id
    ELSE 0

\* the effect of lines 46-92 runs for hook instance h
Mount(h, table, filter) ==
    /\ ~hooks[h].mounted
    /\ nextChan < MaxMounts
    /\ LET topic == Topic("public", table)
           found == ExistingChannel(topic)
           id == IF found = 0 THEN nextChan + 1 ELSE found
       IN /\ channels' =
                IF found = 0
                THEN channels \cup {[id |-> id, topic |-> topic, bindings |-> {<<h, filter>>}]}
                ELSE {IF ch.id = found
                      THEN [ch EXCEPT !.bindings = @ \cup {<<h, filter>>}]
                      ELSE ch : ch \in channels}
          /\ hooks' = [hooks EXCEPT ![h] =
                [mounted |-> TRUE, table |-> table, filter |-> filter, chan |-> id]]
          /\ nextChan' = IF found = 0 THEN nextChan + 1 ELSE nextChan
    /\ UNCHANGED library

\* the cleanup of lines 94-96: client.removeChannel(channel)
Unmount(h) ==
    /\ hooks[h].mounted
    /\ channels' = {ch \in channels : ch.id # hooks[h].chan}
    /\ hooks' = [hooks EXCEPT ![h] = Unmounted]
    /\ UNCHANGED <<library, nextChan>>

\* the cache backend becomes unreachable
BackendDown ==
    /\ up
    /\ up' = FALSE
    /\ UNCHANGED <<jobs, cache, reader, now>>

\* the cache backend is reachable again
BackendUp ==
    /\ ~up
    /\ up' = TRUE
    /\ UNCHANGED <<jobs, cache, reader, now>>

\* time passes
Tick ==
    /\ now < MaxTicks
    /\ now' = now + 1
    /\ UNCHANGED <<jobs, cache, reader, up>>

(***************************************************************************)
(* The hook's payload handler: fan-out by eventType (lines 69-80).         *)
(***************************************************************************)
EventTypes == {"INSERT", "UPDATE", "DELETE"}

CallbackNames == {"onInsert", "onUpdate", "onDelete"}

\* the events prop: not given, or an array of event types
NoEvents == [given |-> FALSE, types |-> {}]

EventsOptions == {NoEvents} \cup {[given |-> TRUE, types |-> S] : S \in SUBSET EventTypes}

\* the props of a page that passes its three handlers and no events option
PageOptions == [events |-> NoEvents, callbacks |-> CallbackNames, version |-> 0]

NoPayload == [hook |-> 0, eventType |-> "NONE", called |-> {}]

FanIdle ==
    /\ options = [h \in Hooks |-> PageOptions]
    /\ invoked = NoPayload

\* events.includes(type), or no events option
Allowed(events, type) == ~events.given \/ type \in events.types

\* ref.current?.(payload): the callback runs if the hook was given one
CallIfGiven(name, callbacks) == IF name \in callbacks THEN {name} ELSE {}

\* a handler whose UPDATE and DELETE branches do not look at the events option
FanoutUnfiltered(eventType, events, callbacks) ==
    IF eventType = "INSERT" /\ Allowed(events, "INSERT")
    THEN CallIfGiven("onInsert", callbacks)
    ELSE IF eventType = "UPDATE" THEN CallIfGiven("onUpdate", callbacks)
    ELSE IF eventType = "DELETE" THEN CallIfGiven("onDelete", callbacks)
    ELSE {}

\* the callbacks the handler invokes for a payload
Fanout(eventType, events, callbacks) ==
    IF eventType = "INSERT" /\ Allowed(events, "INSERT")
    THEN CallIfGiven("onInsert", callbacks)
    ELSE IF eventType = "UPDATE" /\ Allowed(events, "UPDATE")
    THEN CallIfGiven("onUpdate", callbacks)
    ELSE IF eventType = "DELETE" /\ Allowed(events, "DELETE")
    THEN CallIfGiven("onDelete", callbacks)
    ELSE {}

\* the channel of hook h delivers a payload
Receive(h, eventType) ==
    /\ invoked' = [hook |-> h, eventType |-> eventType,
                   called |-> {<<name, options[h].version>> :
                       name \in Fanout(eventType, options[h].events, options[h].callbacks)}]
    /\ UNCHANGED options

\* the events options the owner of a hook passes in the model
RenderEvents ==
    {NoEvents, [given |-> TRUE, types |-> {"INSERT"}],
     [given |-> TRUE, types |-> {"INSERT", "UPDATE"}]}

\* the dependency list [table, schema, filter, events] differs from that of
\* the previous render: React compares each entry with Object.is, an events
\* array by its identity
DepsChanged(h, table, filter, events, sameArray) ==
    \/ table # hooks[h].table
    \/ filter # hooks[h].filter
    \/ events.given # options[h].events.given
    \/ events.given /\ ~sameArray

\* the owner of hook instance h renders again: the ref effect of lines 40-44
\* stores the callbacks, and if a dependency changed the cleanup of lines
\* 94-96 runs and then the effect of lines 46-92
Rerender(h, table, filter, events, sameArray, newCallbacks) ==
    /\ hooks[h].mounted
    /\ sameArray => events = options[h].events
    /\ newCallbacks => options[h].version < MaxRenders
    /\ options' = [options EXCEPT
          ![h].events = events,
          ![h].version = IF newCallbacks THEN @ + 1 ELSE @]
    /\ IF DepsChanged(h, table, filter, events, sameArray)
       THEN /\ nextChan < MaxMounts
            /\ LET kept == {ch \in channels : ch.id # hooks[h].chan}
                   topic == Topic("public", table)
                   reuse == library = "by-topic" /\ \E ch \in kept : ch.topic = topic
                   id == IF reuse THEN (CHOOSE ch \in kept : ch.topic = topic).id
                         ELSE nextChan + 1
               IN /\ channels' =
                        IF reuse
                        THEN {IF ch.id = id
                              THEN [ch EXCEPT !.bindings = @ \cup {<<h, filter>>}]
                              ELSE ch : ch \in kept}
                        ELSE kept \cup {[id |-> id, topic |-> topic,
                                         bindings |-> {<<h, filter>>}]}
                  /\ hooks' = [hooks EXCEPT ![h] =
                        [mounted |-> TRUE, table |-> table, filter |-> filter, chan |-> id]]
                  /\ nextChan' = IF reuse THEN nextChan ELSE nextChan + 1
            /\ UNCHANGED library
       ELSE UNCHANGED hookVars
    /\ UNCHANGED invoked

\* a payload arrives on the channel hook instance h holds
ReceiveOnChannel(h, eventType) ==
    /\ hooks[h].mounted
    /\ \E ch \in channels : ch.id = hooks[h].chan
    /\ Receive(h, eventType)
    /\ UNCHANGED hookVars

(***************************************************************************)
(* AsyncButton (src/unnamed/part_015).                                     *)
(***************************************************************************)
\* the loading prop is absent ("undefined") or a boolean
LoadingProps == {"undefined", "true", "false"}

IdleButton == [externalLoading |-> "undefined", disabled |-> FALSE, internalLoading |-> FALSE]

ButtonIdle ==
    /\ button = IdleButton
    /\ presses = <<>>

\* externalLoading !== undefined ? externalLoading : internalLoading
isLoading ==
    IF button.externalLoading # "undefined"
    THEN button.externalLoading = "true"
    ELSE button.internalLoading

\* what the rendered <Button> carries
ButtonElement ==
    [disabled |-> isLoading \/ button.disabled,
     ariaBusy |-> isLoading,
     dataState |-> IF isLoading THEN "loading" ELSE "idle"]

\* what onClick does: return a promise, return nothing, throw, or be absent
ClickKinds == {"promise", "void", "throws", "absent"}

\* a finally block that leaves the flag as it is
FinallyKeeps(externalLoading, loading) == loading

\* finally { if (externalLoading === undefined) setInternalLoading(false) },
\* with the externalLoading of the render whose handler is running
Finally(externalLoading, loading) ==
    IF externalLoading = "undefined" THEN FALSE ELSE loading

Press(result) == [result |-> result, externalLoading |-> button.externalLoading]

\* handleClick up to its await
handleClick(kind) ==
    IF isLoading \/ button.disabled
    THEN /\ presses' = Append(presses, Press("ignored"))
         /\ UNCHANGED button
    ELSE CASE kind = "absent" ->
                /\ presses' = Append(presses, Press("absent"))
                /\ UNCHANGED button
           [] kind = "promise" ->
                /\ presses' = Append(presses, Press("pending"))
                /\ button' = [button EXCEPT !.internalLoading = TRUE]
           [] kind = "void" ->
                /\ presses' = Append(presses, Press("void"))
                /\ button' = [button EXCEPT !.internalLoading =
                                 Finally(button.externalLoading, button.internalLoading)]
           [] kind = "throws" ->
                /\ presses' = Append(presses, Press("threw"))
                /\ button' = [button EXCEPT !.internalLoading =
                                 Finally(button.externalLoading, button.internalLoading)]

\* the promise of the k-th click settles: handleClick resumes after its await
Settle(k, outcome) ==
    /\ presses[k].result = "pending"
    /\ presses' = [presses EXCEPT ![k].result = outcome]
    /\ button' = [button EXCEPT !.internalLoading =
                     Finally(presses[k].externalLoading, button.internalLoading)]

\* the parent renders the button with another loading prop, or without one
SetLoading(loading) ==
    /\ button.externalLoading # loading
    /\ button' = [button EXCEPT !.externalLoading = loading]
    /\ UNCHANGED presses

\* the parent renders the button with another disabled prop
SetDisabled(disabled) ==
    /\ button.disabled # disabled
    /\ button' = [button EXCEPT !.disabled = disabled]
    /\ UNCHANGED presses

(***************************************************************************)
(* Loading a list and creating a task: the tasks page (src/unnamed/        *)
(* part_010) and the project task dialog (src/unnamed/part_013).           *)
(***************************************************************************)
Views == {"tasks", "project"}

NoRows == [i \in TaskIds |-> "absent"]

PageIdle ==
    /\ pgView = "none"
    /\ pgTasks = <<>>
    /\ pgServer = NoRows
    /\ pgInbox = <<>>
    /\ pgJoined = FALSE
    /\ pgFetches = <<>>
    /\ pgReplies = <<>>
    /\ pgWrites = 0
    /\ pgCopies = 0

\* a getTasks request that has not reached the server
SentFetch == [st |-> "sent", items |-> <<>>]

\* the component has mounted: its effects have called loadTasks and started
\* the subscription, and neither has reached the server
InitMounted(view, rows) ==
    /\ pgView = view
    /\ pgTasks = <<>>
    /\ pgServer = rows
    /\ pgInbox = <<>>
    /\ pgJoined = FALSE
    /\ pgFetches = <<SentFetch>>
    /\ pgReplies = <<>>
    /\ pgWrites = 0
    /\ pgCopies = 0

\* the component has loaded the server's rows and its subscription is joined
InitLoaded(view, rows) ==
    /\ pgView = view
    /\ pgTasks = ServerList(rows, 1)
    /\ pgServer = rows
    /\ pgInbox = <<>>
    /\ pgJoined = TRUE
    /\ pgFetches = <<>>
    /\ pgReplies = <<>>
    /\ pgWrites = 0
    /\ pgCopies = 0

\* the project dialog's onInsert (part_013 lines 292-298)
projectOnInsert(prev, payload) ==
    IF \E k \in DOMAIN prev : prev[k].id = payload.new.id
    THEN prev
    ELSE <<payload.new>> \o prev

ViewDispatch(view, prev, payload) ==
    IF view = "tasks" THEN Dispatch(prev, payload)
    ELSE IF payload.eventType = "INSERT" THEN projectOnInsert(prev, payload)
    ELSE IF payload.eventType = "UPDATE" THEN onUpdate(prev, payload)
    ELSE IF payload.eventType = "DELETE" THEN onDelete(prev, payload)
    ELSE prev

\* the tasks page's onSuccess (part_010 lines 75-81)
tasksOnSuccess(prev, newTask) ==
    IF \E k \in DOMAIN prev : prev[k].id = newTask.id
    THEN prev
    ELSE <<newTask>> \o prev

\* the project dialog's onSuccess (part_013 line 364), before its loadTasks()
projectOnSuccess(prev, newTask) == <<newTask>> \o prev

\* the server sends the event to the channel if the subscription is joined
PageEmit(ev) == IF pgJoined THEN Append(pgInbox, ev) ELSE pgInbox

\* the server registers the subscription
Join ==
    /\ ~pgJoined
    /\ pgJoined' = TRUE
    /\ UNCHANGED <<pgView, pgTasks, pgServer, pgInbox, pgFetches, pgReplies,
                   pgWrites, pgCopies>>

\* AddTaskDialog submits: the server commits the new task and answers
CreateTask(i) ==
    /\ pgServer[i] = "absent"
    /\ pgWrites < MaxPageWrites
    /\ pgServer' = [pgServer EXCEPT ![i] = "todo"]
    /\ pgInbox' = PageEmit(Event("INSERT", Task(i, "todo"), NoTask))
    /\ pgReplies' = Append(pgReplies, Task(i, "todo"))
    /\ pgWrites' = pgWrites + 1
    /\ UNCHANGED <<pgView, pgTasks, pgJoined, pgFetches, pgCopies>>

\* another user creates a task
OtherInsert(i) ==
    /\ pgServer[i] = "absent"
    /\ pgWrites < MaxPageWrites
    /\ pgServer' = [pgServer EXCEPT ![i] = "todo"]
    /\ pgInbox' = PageEmit(Event("INSERT", Task(i, "todo"), NoTask))
    /\ pgWrites' = pgWrites + 1
    /\ UNCHANGED <<pgView, pgTasks, pgJoined, pgFetches, pgReplies, pgCopies>>

\* another user changes the status of a task
OtherUpdate(i, s) ==
    /\ pgServer[i] \notin {"absent", s}
    /\ pgWrites < MaxPageWrites
    /\ pgServer' = [pgServer EXCEPT ![i] = s]
    /\ pgInbox' = PageEmit(Event("UPDATE", Task(i, s), OldRow(i)))
    /\ pgWrites' = pgWrites + 1
    /\ UNCHANGED <<pgView, pgTasks, pgJoined, pgFetches, pgReplies, pgCopies>>

\* another user deletes a task
OtherDelete(i) ==
    /\ pgServer[i] # "absent"
    /\ pgWrites < MaxPageWrites
    /\ pgServer' = [pgServer EXCEPT ![i] = "absent"]
    /\ pgInbox' = PageEmit(Event("DELETE", NoTask, OldRow(i)))
    /\ pgWrites' = pgWrites + 1
    /\ UNCHANGED <<pgView, pgTasks, pgJoined, pgFetches, pgReplies, pgCopies>>

\* AddTaskDialog calls onSuccess with the created task
OnSuccess ==
    /\ pgReplies # <<>>
    /\ pgReplies' = Tail(pgReplies)
    /\ IF pgView = "tasks"
       THEN /\ pgTasks' = tasksOnSuccess(pgTasks, Head(pgReplies))
            /\ UNCHANGED pgFetches
       ELSE /\ pgTasks' = projectOnSuccess(pgTasks, Head(pgReplies))
            /\ pgFetches' = Append(pgFetches, SentFetch)
    /\ UNCHANGED <<pgView, pgServer, pgInbox, pgJoined, pgWrites, pgCopies>>

\* the server reads the table for a getTasks request
FetchServe(k) ==
    /\ pgFetches[k].st = "sent"
    /\ pgFetches' = [pgFetches EXCEPT
          ![k] = [st |-> "served", items |-> ServerList(pgServer, 1)]]
    /\ UNCHANGED <<pgView, pgTasks, pgServer, pgInbox, pgJoined, pgReplies,
                   pgWrites, pgCopies>>

\* loadTasks resumes with the response: setTasks(taskList)
FetchReturn(k) ==
    /\ pgFetches[k].st = "served"
    /\ pgTasks' = pgFetches[k].items
    /\ pgFetches' = RemoveAt(pgFetches, k)
    /\ UNCHANGED <<pgView, pgServer, pgInbox, pgJoined, pgReplies, pgWrites, pgCopies>>

\* the channel callback runs for the oldest event
DeliverEvent ==
    /\ pgInbox # <<>>
    /\ pgTasks' = ViewDispatch(pgView, pgTasks, Head(pgInbox))
    /\ pgInbox' = Tail(pgInbox)
    /\ UNCHANGED <<pgView, pgServer, pgJoined, pgFetches, pgReplies, pgWrites, pgCopies>>

\* at-least-once delivery: the oldest event will be delivered twice
Redeliver ==
    /\ pgInbox # <<>>
    /\ pgCopies < MaxCopies
    /\ pgInbox' = <<Head(pgInbox)>> \o pgInbox
    /\ pgCopies' = pgCopies + 1
    /\ UNCHANGED <<pgView, pgTasks, pgServer, pgJoined, pgFetches, pgReplies, pgWrites>>

\* nothing is in flight: every response and every event has been handled
PageQuiet ==
    /\ pgJoined
    /\ pgInbox = <<>>
    /\ pgFetches = <<>>
    /\ pgReplies = <<>>

(***************************************************************************)
(* The dashboard page (src/unnamed/part_008): loadData and the realtime    *)
(* subscriptions that call it.                                             *)
(***************************************************************************)
NoStats == [n |-> 0, data |-> -1]

\* a loadData call: its number, isRefresh, and the data its requests read
Load(n, isRefresh) == [n |-> n, isRefresh |-> isRefresh, st |-> "sent", data |-> -1]

DashIdle ==
    /\ dashServer = 0
    /\ dashEvents = 0
    /\ stats = NoStats
    /\ isRefreshing = FALSE
    /\ reloads = <<>>
    /\ issued = 0

\* the page has mounted: the effect of lines 68-70 has called loadData()
InitDash ==
    /\ dashServer = 0
    /\ dashEvents = 0
    /\ stats = NoStats
    /\ isRefreshing = FALSE
    /\ reloads = <<Load(1, FALSE)>>
    /\ issued = 1

\* a write to one of the five subscribed tables commits and its event is sent
DashCommit ==
    /\ dashServer < MaxDashWrites
    /\ dashServer' = dashServer + 1
    /\ dashEvents' = dashEvents + 1
    /\ UNCHANGED <<stats, isRefreshing, reloads, issued>>

\* handleRealtimeUpdate: loadData(true) up to its await (lines 34-48)
handleRealtimeUpdate ==
    /\ dashEvents > 0
    /\ dashEvents' = dashEvents - 1
    /\ isRefreshing' = TRUE
    /\ reloads' = Append(reloads, Load(issued + 1, TRUE))
    /\ issued' = issued + 1
    /\ UNCHANGED <<dashServer, stats>>

\* the server answers the requests of a loadData call
LoadServe(k) ==
    /\ reloads[k].st = "sent"
    /\ reloads' = [reloads EXCEPT ![k].st = "served", ![k].data = dashServer]
    /\ UNCHANGED <<dashServer, dashEvents, stats, isRefreshing, issued>>

\* loadData resumes after Promise.all: setStats and the finally block
LoadReturn(k) ==
    /\ reloads[k].st = "served"
    /\ stats' = [n |-> reloads[k].n, data |-> reloads[k].data]
    /\ isRefreshing' = FALSE
    /\ reloads' = RemoveAt(reloads, k)
    /\ UNCHANGED <<dashServer, dashEvents, issued>>

\* a request of a loadData call fails: the catch and the finally block
LoadFail(k) ==
    /\ reloads[k].st = "sent"
    /\ isRefreshing' = FALSE
    /\ reloads' = RemoveAt(reloads, k)
    /\ UNCHANGED <<dashServer, dashEvents, stats, issued>>

(***************************************************************************)
(* Loss and recovery of the realtime connection of a page.                 *)
(***************************************************************************)
LossStatuses == {"CHANNEL_ERROR", "TIMED_OUT", "CLOSED"}

\* the subscribe callback (lines 82-92) is told of the loss: it logs
ConnectionLost(c, status) ==
    /\ Alive(c)
    /\ chanStatus[c] = "SUBSCRIBED"
    /\ status \in LossStatuses
    /\ chanStatus' = [chanStatus EXCEPT ![c] = status]
    /\ UNCHANGED <<rejoined, boardVars>>

\* the client rejoins the channel; the callback is told SUBSCRIBED: it logs
Reconnect(c) ==
    /\ Alive(c)
    /\ chanStatus[c] \in LossStatuses
    /\ chanStatus' = [chanStatus EXCEPT ![c] = "SUBSCRIBED"]
    /\ rejoined' = [rejoined EXCEPT ![c] = TRUE]
    /\ UNCHANGED boardVars

(***************************************************************************)
(* The response cache and its invalidation (backend/CACHING.md).           *)
(***************************************************************************)
EntityTypes == {"Leads", "Tasks", "Clients", "Projects", "Tickets", "Invoices", "Users"}

Namespaces ==
    {"leads", "tasks", "clients", "projects", "tickets", "invoices", "users", "reports"}

\* the namespace that holds the entity type's own endpoints
OwnNamespace(T) ==
    CASE T = "Leads" -> "leads"
      [] T = "Tasks" -> "tasks"
      [] T = "Clients" -> "clients"
      [] T = "Projects" -> "projects"
      [] T = "Tickets" -> "tickets"
      [] T = "Invoices" -> "invoices"
      [] T = "Users" -> "users"

\* direct invalidation only: a rule table that lost its cascade entries
InvalidationRuleNoCascade(T) == {OwnNamespace(T)}

\* the namespaces invalidated by a modification of an entity of type T
InvalidationRule(T) ==
    CASE T = "Leads" -> {"leads"}
      [] T = "Tasks" -> {"tasks", "reports"}
      [] T = "Clients" -> {"clients", "reports"}
      [] T = "Projects" -> {"projects", "reports"}
      [] T = "Tickets" -> {"tickets", "reports"}
      [] T = "Invoices" -> {"invoices", "reports"}
      [] T = "Users" -> {"users"}

\* the cached endpoints that are requested, and the namespace of each
Routes == {"/leads", "/reports/dashboard"}

NamespaceOf(route) == IF route = "/leads" THEN "leads" ELSE "reports"

\* the data is identified by the number of writes committed when it was read
dbVersion == Len(jobs)

\* an expiration of two minutes for every route
TtlLong(route) == 120

\* the expiration of the route's entries, in seconds
Ttl(route) == IF route = "/leads" THEN 60 ELSE 60

\* the seconds between two ticks of the clock
TickSeconds == 30

NoEntry == [ver |-> -1, at |-> -1, t |-> -1, gen |-> -1]

IdleReader ==
    [route |-> "none", ns |-> "none", phase |-> "idle", ret |-> -1, floor |-> 0,
     cached |-> FALSE]

\* how many purges of the namespace have completed
PurgeCount(ns) == Cardinality({m \in DOMAIN jobs : ns \in jobs[m].purged})

\* the store still holds the entry: its TTL has not elapsed
Fresh(entry, route) == entry # NoEntry /\ (now - entry.t) * TickSeconds < Ttl(route)

CacheIdle ==
    /\ jobs = <<>>
    /\ cache = [ns \in Namespaces |-> NoEntry]
    /\ reader = IdleReader
    /\ now = 0
    /\ up = TRUE

\* no namespace is ever treated as dirty
NeverDirty(ns) == FALSE

\* a namespace with a failed purge that has not yet succeeded
Dirty(ns) == \E m \in DOMAIN jobs : ns \in jobs[m].failed

Max(S) == CHOOSE x \in S : \A y \in S : y <= x

\* the latest write covering ns whose invalidation has completed
Floor(ns) ==
    Max({0} \cup {m \in DOMAIN jobs :
                    jobs[m].st = "done" /\ ns \in InvalidationRule(jobs[m].type)})

\* caching is on for every request, whatever the state of the backend
UseCacheAlways == TRUE

\* a request uses the cache only while the backend is available
UseCache == up

\* a write of an entity of type T commits; its invalidation is dispatched
Commit(T) ==
    /\ Len(jobs) < MaxWrites
    /\ jobs' = Append(jobs, [type |-> T, purged |-> {}, failed |-> {}, st |-> "running"])
    /\ UNCHANGED <<cache, reader, now, up>>

\* the dispatcher purges one namespace of the job's rule
Purge(m, ns) ==
    /\ up
    /\ jobs[m].st = "running"
    /\ ns \in InvalidationRule(jobs[m].type) \ jobs[m].purged
    /\ cache' = [cache EXCEPT ![ns] = NoEntry]
    /\ LET purged == jobs[m].purged \cup {ns}
       IN jobs' = [jobs EXCEPT ![m] =
                [type |-> @.type, purged |-> purged, failed |-> @.failed \ {ns},
                 st |-> IF purged = InvalidationRule(@.type) THEN "done" ELSE "running"]]
    /\ UNCHANGED <<reader, now, up>>

\* a purge command fails: the namespace is dirty until a retry succeeds
PurgeFail(m, ns) ==
    /\ jobs[m].st = "running"
    /\ ns \in InvalidationRule(jobs[m].type) \ jobs[m].purged
    /\ ns \notin jobs[m].failed
    /\ jobs' = [jobs EXCEPT ![m].failed = @ \cup {ns}]
    /\ UNCHANGED <<cache, reader, now, up>>

\* the middleware looks the key up: bypass, hit or miss
ReadStart(route) ==
    /\ reader.phase = "idle"
    /\ LET ns == NamespaceOf(route)
           request == [route |-> route, ns |-> ns, phase |-> "miss", ret |-> -1,
                       floor |-> Floor(ns), cached |-> FALSE]
       IN reader' =
            IF ~UseCache \/ Dirty(ns)
            THEN [request EXCEPT !.phase = "bypass"]
            ELSE IF Fresh(cache[ns], route)
            THEN [request EXCEPT !.phase = "done", !.ret = cache[ns].ver, !.cached = TRUE]
            ELSE request
    /\ UNCHANGED <<jobs, cache, now, up>>

\* the endpoint computes the live value
ReadCompute ==
    /\ reader.phase \in {"miss", "bypass"}
    /\ reader' = [reader EXCEPT !.ret = dbVersion,
                                !.phase = IF @ = "miss" THEN "store" ELSE "done"]
    /\ UNCHANGED <<jobs, cache, now, up>>

\* the middleware stores the computed value with the namespace's TTL
ReadStore ==
    /\ reader.phase = "store"
    /\ cache' =
          IF UseCache
          THEN [cache EXCEPT ![reader.ns] =
                  [ver |-> reader.ret, at |-> dbVersion, t |-> now,
                   gen |-> PurgeCount(reader.ns)]]
          ELSE cache
    /\ reader' = [reader EXCEPT !.phase = "done"]
    /\ UNCHANGED <<jobs, now, up>>

\* the response is returned to the caller
ReadReturn ==
    /\ reader.phase = "done"
    /\ reader' = IdleReader
    /\ UNCHANGED <<jobs, cache, now, up>>

\* the store drops the entry: expired, or evicted early
Expire(ns) ==
    /\ cache[ns] # NoEntry
    /\ cache' = [cache EXCEPT ![ns] = NoEntry]
    /\ UNCHANGED <<jobs, reader, now, up>>

(***************************************************************************)
(* The keys of cached responses (src/backend/CACHING.md, Key Builder).     *)
(* A read request carries the route, its parameters, the principal the     *)
(* authentication layer supplies and the database session of the request.  *)
(***************************************************************************)
Principals == {"u1", "u2"}

ParamSets == {"", "page=2"}

Sessions == {"s1", "s2"}

Requests == [route : Routes, params : ParamSets, principal : Principals, session : Sessions]

NoResponse == [request |-> "none", cached |-> FALSE, owner |-> "none"]

KeyIdle ==
    /\ keyStore = {}
    /\ response = NoResponse

\* a key builder that leaves the principal out
cache_key_builder_shared(request) ==
    <<NamespaceOf(request.route), request.route, request.params>>

\* keys are unique per user and request parameters; the session is left out
cache_key_builder(request) ==
    <<NamespaceOf(request.route), request.route, request.params, request.principal>>

\* @cache on a read endpoint: GET(key), and on a miss the live payload of
\* the requesting principal is SET under the key
KeyedRead(request) ==
    LET key == cache_key_builder(request)
        held == {e \in keyStore : e.key = key}
    IN IF held # {}
       THEN /\ \E e \in held :
                  response' = [request |-> request, cached |-> TRUE, owner |-> e.owner]
            /\ UNCHANGED keyStore
       ELSE /\ keyStore' = keyStore \cup {[key |-> key, owner |-> request.principal]}
            /\ response' = [request |-> request, cached |-> FALSE,
                            owner |-> request.principal]

\* FastAPICache.clear(namespace=...): every key of the namespace is deleted
KeyedClear(ns) ==
    /\ \E e \in keyStore : e.key[1] = ns
    /\ keyStore' = {e \in keyStore : e.key[1] # ns}
    /\ UNCHANGED response

(***************************************************************************)
(* Spec: one client on a loaded, subscribed tasks page, dragging cards.    *)
(* SpecPeers: the same page while other users write to the tasks table.    *)
(***************************************************************************)
InitialServers ==
    {[i \in TaskIds |-> IF i = 1 THEN "todo" ELSE s] : s \in {"in_progress", "absent"}}

InitBoard(open) ==
    /\ mounted = open
    /\ server \in IF open = {} THEN {[i \in TaskIds |-> "absent"]} ELSE InitialServers
    /\ tasks = [c \in Clients |-> IF c \in open THEN ServerList(server, 1) ELSE <<>>]
    /\ activeTask = [c \in Clients |-> NoTask]
    /\ calls = [c \in Clients |-> <<>>]
    /\ drops = [c \in Clients |-> 0]
    /\ toasts = [c \in Clients |-> [success |-> 0, error |-> 0]]
    /\ crashed = [c \in Clients |-> FALSE]
    /\ peerWrites = 0
    /\ queue = [c \in Clients |-> <<>>]
    /\ chanStatus = [c \in Clients |-> IF c \in open THEN "SUBSCRIBED" ELSE "CLOSED"]
    /\ rejoined = [c \in Clients |-> FALSE]

Init == InitBoard({1}) /\ MergeIdle /\ HookIdle /\ CacheIdle /\ FanIdle /\ KeyIdle /\ ButtonIdle /\ PageIdle /\ DashIdle

BoardOnly == UNCHANGED <<mergeVars, linkVars, hookVars, cacheVars, fanVars, keyVars, buttonVars, pageVars, dashVars>>

DragStartStep == BoardOnly /\ \E c \in Clients : \E k \in DOMAIN tasks[c] : onDragStart(c, k)

DragOverStep ==
    BoardOnly /\ \E c \in Clients : \E over \in OverTargets(tasks[c]) : onDragOver(c, over)

\* at most n updateTask calls have been issued by each client
DropsWithin(n) == \A c \in Clients : drops'[c] <= n

DragEndAny ==
    BoardOnly /\ \E c \in Clients : \E over \in OverTargets(tasks[c]) : onDragEnd(c, over)

\* a client has one updateTask call outstanding at most: the user makes the
\* next cross-column move after the response to the previous one (SpecAgain
\* covers a move made while a call is outstanding)
OneAtATime == \A c \in Clients : Len(calls'[c]) <= 1

DragEndStep == DragEndAny /\ DropsWithin(MaxDrops) /\ OneAtATime

ServerCommitStep == BoardOnly /\ \E c \in Clients : \E i \in DOMAIN calls[c] : ServerCommit(c, i)

ApiSuccessStep == BoardOnly /\ \E c \in Clients : \E i \in DOMAIN calls[c] : ApiSuccess(c, i)

ApiFailStep == BoardOnly /\ \E c \in Clients : \E i \in DOMAIN calls[c] : ApiFail(c, i)

DeliverStep == BoardOnly /\ \E c \in Clients : Deliver(c)

Next ==
    \/ DragStartStep
    \/ DragOverStep
    \/ DragEndStep
    \/ ServerCommitStep
    \/ ApiSuccessStep
    \/ ApiFailStep
    \/ DeliverStep

Spec == Init /\ [][Next]_vars

PeerUpdateStep == BoardOnly /\ \E i \in TaskIds, s \in PeerStatuses : PeerUpdate(i, s)

PeerInsertStep == BoardOnly /\ \E i \in TaskIds, s \in PeerStatuses : PeerInsert(i, s)

PeerDeleteStep == BoardOnly /\ \E i \in TaskIds : PeerDelete(i)

PeerNext ==
    \/ PeerUpdateStep
    \/ PeerInsertStep
    \/ PeerDeleteStep

NextPeers == Next \/ PeerNext

SpecPeers == Init /\ [][NextPeers]_vars

(***************************************************************************)
(* Properties of the task board.                                           *)
(***************************************************************************)
\* nothing is in flight at client c: no drag, no pending call, no queued event
Quiescent(c) == activeTask[c] = NoTask /\ calls[c] = <<>> /\ queue[c] = <<>>

\* task i is shown as one card, in the column of its committed status
ShownAsCommitted(c, i) ==
    Count(tasks[c], i) = 1 /\ ColumnsOf(tasks[c], i) = {server[i]}

\* C1: Reorder correctness. Once every updateTask call has resolved, every
\* event has been delivered and no drag is in progress, each task of the server
\* is shown in exactly one column, the column of its last committed status.
C1_ReorderCorrectness ==
    \A c \in mounted :
        (Alive(c) /\ Quiescent(c)) =>
            \A i \in TaskIds : server[i] # "absent" => ShownAsCommitted(c, i)

\* C2: in every reachable state every task held in the local list is rendered
\* in exactly one of the four columns: never in none, never as two cards.
C2_ExactlyOneColumn ==
    \A c \in mounted : \A k \in DOMAIN tasks[c] :
        Cardinality(Cards(tasks[c], tasks[c][k].id)) = 1

\* C4: Rollback on mutation failure. Whenever an updateTask call fails, the
\* dragged task has afterwards the status it had when the drag started, and an
\* error toast is shown.
C4_RollbackRestoresPreDrag ==
    [][\A c \in Clients : \A i \in 1..MaxDrops :
          ApiFail(c, i) =>
              /\ toasts'[c].error = toasts[c].error + 1
              /\ \A k \in DOMAIN tasks'[c] :
                    tasks'[c][k].id = calls[c][i].id =>
                        tasks'[c][k].status = calls[c][i].orig]_vars

\* C10 (Scenario A): a cross-column drop shows the task under the drop's status
\* at once, before the response of updateTask; and applying the server's UPDATE
\* event for a task, before or after that response, leaves as many entries of
\* the task as there were (one, when there was one), all under the event's status.
C10_ScenarioA ==
    [][\A c \in Clients :
          /\ Len(calls'[c]) > Len(calls[c]) =>
                LET call == calls'[c][Len(calls'[c])]
                IN /\ call.st = "sent"
                   /\ Count(tasks'[c], call.id) = Count(tasks[c], call.id)
                   /\ Count(tasks[c], call.id) = 1 =>
                         ColumnsOf(tasks'[c], call.id) = {call.status}
          /\ (Deliver(c) /\ Head(queue[c]).eventType = "UPDATE") =>
                LET row == Head(queue[c]).new
                IN /\ Count(tasks'[c], row.id) = Count(tasks[c], row.id)
                   /\ Count(tasks[c], row.id) = 1 =>
                         ColumnsOf(tasks'[c], row.id) = {row.status}]_vars

\* C10 witness: task 1 was todo, was dropped on in_progress, the server's UPDATE
\* event has been applied while the response is still outstanding, and the list
\* holds task 1 once, under in_progress.
C10_Witness ==
    /\ Len(calls[1]) = 1
    /\ calls[1][1] = [id |-> 1, status |-> "in_progress", tasks |-> calls[1][1].tasks,
                      orig |-> "todo", st |-> "ok"]
    /\ queue[1] = <<>>
    /\ Count(tasks[1], 1) = 1
    /\ ColumnsOf(tasks[1], 1) = {"in_progress"}

\* the status the list holds for task i (its first entry)
StatusIn(arr, i) == arr[findIndex(arr, i) + 1].status

\* the pointer is over the card of another task, and both that task and the
\* dragged one are in the column the dragged task was in when the drag started
SameColumnOver(c, over) ==
    /\ activeTask[c] # NoTask
    /\ over.type = "Task"
    /\ over.task # activeTask[c].id
    /\ findIndex(tasks[c], activeTask[c].id) # -1
    /\ findIndex(tasks[c], over.task) # -1
    /\ StatusIn(tasks[c], activeTask[c].id) = activeTask[c].status
    /\ StatusIn(tasks[c], over.task) = activeTask[c].status

\* b holds the rows of a, each as often as a does
IsPermutation(a, b) ==
    /\ Len(a) = Len(b)
    /\ \A k \in DOMAIN a :
          Cardinality({j \in DOMAIN a : a[j] = a[k]}) =
          Cardinality({j \in DOMAIN b : b[j] = a[k]})

\* C15: reordering within a column is a pure local permutation. Dragging a
\* task over, or dropping it onto, a task of its own column issues no
\* updateTask call and leaves the list a permutation of what it was: the same
\* tasks with the same statuses.
C15_SameColumnReorder ==
    [][\A c \in Clients : \A over \in OverTargets(tasks[c]) :
          (SameColumnOver(c, over) /\ (onDragOver(c, over) \/ onDragEnd(c, over))) =>
              /\ calls'[c] = calls[c]
              /\ drops'[c] = drops[c]
              /\ IsPermutation(tasks[c], tasks'[c])]_vars

\* C15 witness: both tasks are in one column, task 2 was dragged in front of
\* task 1 there, and no call is outstanding
C15_Witness ==
    /\ Len(tasks[1]) = 2
    /\ tasks[1][1].id = 2 /\ tasks[1][2].id = 1
    /\ tasks[1][1].status = tasks[1][2].status
    /\ activeTask[1] = tasks[1][1]
    /\ calls[1] = <<>>
    /\ drops[1] = 1

(***************************************************************************)
(* SpecTwo: two clients have the board open and move the same task.        *)
(***************************************************************************)
InitTwo ==
    /\ InitBoard({1, 2})
    /\ MergeIdle
    /\ HookIdle /\ CacheIdle /\ FanIdle /\ KeyIdle /\ ButtonIdle /\ PageIdle /\ DashIdle
    /\ server[2] = "absent"

\* Scenario E: each of the two users makes one cross-column move
OneMoveEach == \A c \in Clients : drops'[c] <= 1

NextTwo ==
    \/ DragStartStep
    \/ DragOverStep
    \/ DragEndStep /\ OneMoveEach
    \/ ServerCommitStep
    \/ ApiSuccessStep
    \/ ApiFailStep
    \/ DeliverStep

SpecTwo == InitTwo /\ [][NextTwo]_vars

\* every write client c has made was committed, and c has nothing in flight
AllMovesCommitted(c) ==
    /\ drops[c] >= 1
    /\ toasts[c].error = 0
    /\ \A i \in DOMAIN calls[c] : calls[c][i].st = "ok"
    /\ activeTask[c] = NoTask
    /\ queue[c] = <<>>

\* C9: when two clients have each dropped the task into a column, all their
\* writes were committed and every UPDATE event has been delivered to both,
\* both show the task in the column of the later commit.
C9_ConcurrentMovesConverge ==
    (\A c \in mounted : AllMovesCommitted(c)) =>
        \A c \in mounted : ShownAsCommitted(c, 1)

\* C9 witness: the clients dropped task 1 into different columns, both writes
\* were committed, all events are delivered.
C9_Witness ==
    /\ mounted = {1, 2}
    /\ \A c \in mounted : AllMovesCommitted(c) /\ calls[c] # <<>>
    /\ calls[1][1].status # calls[2][1].status
    /\ \A c \in mounted : ShownAsCommitted(c, 1)

(***************************************************************************)
(* SpecAgain: one client moves the only task of the board, and may move it *)
(* again while an updateTask call is outstanding.                          *)
(***************************************************************************)
InitOne ==
    /\ InitBoard({1})
    /\ MergeIdle
    /\ HookIdle /\ CacheIdle /\ FanIdle /\ KeyIdle /\ ButtonIdle /\ PageIdle /\ DashIdle
    /\ server[2] = "absent"

MoveAgainStep == DragEndAny /\ DropsWithin(MaxMoves)

NextAgain ==
    \/ DragStartStep
    \/ DragOverStep
    \/ MoveAgainStep
    \/ ServerCommitStep
    \/ ApiSuccessStep
    \/ ApiFailStep
    \/ DeliverStep

SpecAgain == InitOne /\ [][NextAgain]_vars

\* call i of client c was followed by a later move of the same task
Superseded(c, i) ==
    \E j \in DOMAIN calls[c] : j > i /\ calls[c][j].id = calls[c][i].id

\* C11: Coalescing of user intent. When a task was moved again while the call
\* of an earlier move was unresolved, the resolution of the earlier call, by
\* success or by failure, leaves the locally visible list as the later move
\* set it.
C11_CoalesceLatestMove ==
    [][\A c \in Clients : \A i \in DOMAIN calls[c] :
          (Superseded(c, i) /\ (ApiSuccess(c, i) \/ ApiFail(c, i))) =>
              tasks'[c] = tasks[c]]_vars

(***************************************************************************)
(* SpecMerge: a ChangeEvent delivered twice to a page's list.              *)
(***************************************************************************)
NextMerge == ApplyEvent /\ UNCHANGED <<boardVars, linkVars, hookVars, cacheVars, fanVars, keyVars, buttonVars, pageVars, dashVars>>

InitMergeSpec == InitBoard({}) /\ InitMerge /\ HookIdle /\ CacheIdle /\ FanIdle /\ KeyIdle /\ ButtonIdle /\ PageIdle /\ DashIdle

SpecMerge == InitMergeSpec /\ [][NextMerge]_vars

\* C3: Idempotent merge. Applying the handler of a ChangeEvent twice to a list
\* yields the list that applying it once yields.
C3_IdempotentMerge == mergeApplied = 2 => mergeList = mergeOnce

(***************************************************************************)
(* SpecGap: a subscribed tasks page loses and regains its connection while *)
(* other users write.                                                      *)
(***************************************************************************)
ConnectionLostStep ==
    /\ \E c \in Clients, status \in LossStatuses : ConnectionLost(c, status)
    /\ UNCHANGED <<mergeVars, hookVars, cacheVars, fanVars, keyVars, buttonVars, pageVars, dashVars>>

ReconnectStep == (\E c \in Clients : Reconnect(c)) /\ UNCHANGED <<mergeVars, hookVars, cacheVars, fanVars, keyVars, buttonVars, pageVars, dashVars>>

NextGap ==
    \/ PeerUpdateStep
    \/ PeerInsertStep
    \/ PeerDeleteStep
    \/ DeliverStep
    \/ ConnectionLostStep
    \/ ReconnectStep

SpecGap == Init /\ [][NextGap]_vars

\* the list holds the rows a fresh GET /tasks returns, each once
EqualsColdLoad(list, srv) ==
    /\ Len(list) = Len(ServerList(srv, 1))
    /\ \A k \in DOMAIN list : srv[list[k].id] = list[k].status
    /\ \A i \in TaskIds : Count(list, i) <= 1

\* C8: Delivery gap handling. After a connection loss followed by a reconnect,
\* once every event received has been applied, the local list equals a fresh
\* cold load, also when ChangeEvents were missed during the gap.
C8_ResyncAfterReconnect ==
    \A c \in mounted :
        (rejoined[c] /\ chanStatus[c] = "SUBSCRIBED" /\ queue[c] = <<>>) =>
            EqualsColdLoad(tasks[c], server)

(***************************************************************************)
(* SpecHook: hook instances mount and unmount.                             *)
(***************************************************************************)
MountStep ==
    /\ \E h \in Hooks, table \in HookTables, filter \in HookFilters : Mount(h, table, filter)
    /\ UNCHANGED <<boardVars, mergeVars, linkVars, cacheVars, fanVars, keyVars, buttonVars, pageVars, dashVars>>

UnmountStep == (\E h \in Hooks : Unmount(h)) /\ UNCHANGED <<boardVars, mergeVars, linkVars, cacheVars, fanVars, keyVars, buttonVars, pageVars, dashVars>>

NextHook ==
    \/ MountStep
    \/ UnmountStep

InitHookSpec == InitBoard({}) /\ MergeIdle /\ InitHook /\ CacheIdle /\ FanIdle /\ KeyIdle /\ ButtonIdle /\ PageIdle /\ DashIdle

SpecHook == InitHookSpec /\ [][NextHook]_vars

PairOf(h) == <<hooks[h].table, hooks[h].filter>>

\* the channels of the client that serve the mounted subscriptions of a pair
ChannelsFor(pair) ==
    {ch \in channels : \E h \in Hooks :
        hooks[h].mounted /\ PairOf(h) = pair /\ hooks[h].chan = ch.id}

\* C7: Single-channel multiplexing. The mounted subscriptions of one
\* (table, filter) pair are served by exactly one channel of the client, and
\* subscriptions of different pairs by different channels.
C7_SingleChannelPerPair ==
    \A h \in Hooks : hooks[h].mounted =>
        /\ Cardinality(ChannelsFor(PairOf(h))) = 1
        /\ \A g \in Hooks :
              (hooks[g].mounted /\ PairOf(g) # PairOf(h)) => hooks[g].chan # hooks[h].chan

(***************************************************************************)
(* SpecCache: writes commit, the dispatcher purges, requests read.         *)
(***************************************************************************)
OnlyCache == UNCHANGED <<boardVars, mergeVars, linkVars, hookVars, fanVars, keyVars, buttonVars, pageVars, dashVars>>

CommitStep == (\E T \in EntityTypes : Commit(T)) /\ OnlyCache

PurgeStep == (\E m \in DOMAIN jobs : \E ns \in Namespaces : Purge(m, ns)) /\ OnlyCache

PurgeFailStep == (\E m \in DOMAIN jobs : \E ns \in Namespaces : PurgeFail(m, ns)) /\ OnlyCache

ReadStartStep == (\E route \in Routes : ReadStart(route)) /\ OnlyCache

ReadComputeStep == ReadCompute /\ OnlyCache

ReadStoreStep == ReadStore /\ OnlyCache

ReadReturnStep == ReadReturn /\ OnlyCache

ExpireStep == (\E ns \in Namespaces : Expire(ns)) /\ OnlyCache

NextCache ==
    \/ CommitStep
    \/ PurgeStep
    \/ PurgeFailStep
    \/ ReadStartStep
    \/ ReadComputeStep
    \/ ReadStoreStep
    \/ ReadReturnStep
    \/ ExpireStep

InitCacheSpec == InitBoard({}) /\ MergeIdle /\ HookIdle /\ CacheIdle /\ FanIdle /\ KeyIdle /\ ButtonIdle /\ PageIdle /\ DashIdle

SpecCache == InitCacheSpec /\ [][NextCache]_vars

\* C5: Cache coherence. A read against a namespace covered by the rule of a
\* committed write M, issued after M's purge completed, never returns data
\* older than M's commit, also when an earlier read that missed the cache
\* before the commit stored its result after the purge.
C5_CacheCoherence == reader.phase = "done" => reader.ret >= reader.floor

\* the invalidation sets the claim declares
C6_Declared ==
    [T \in EntityTypes |->
        IF T \in {"Leads", "Users"} THEN {OwnNamespace(T)} ELSE {OwnNamespace(T), "reports"}]

\* C6: A committed write of type T purges exactly the namespaces declared
\* for T: none outside the set, all of them once the purge is complete, and
\* an entry cached before the write (such as /reports/dashboard for an Invoice
\* write) is gone when the purge is complete.
C6_ExactInvalidationSet ==
    \A m \in DOMAIN jobs :
        /\ jobs[m].purged \subseteq C6_Declared[jobs[m].type]
        /\ jobs[m].st = "done" =>
              /\ jobs[m].purged = C6_Declared[jobs[m].type]
              /\ \A ns \in C6_Declared[jobs[m].type] :
                    cache[ns] = NoEntry \/ cache[ns].at >= m

\* an Invoice write completed its purge after /reports/dashboard had been
\* served from the cache, and the entry is gone
C6_Witness ==
    \E m \in DOMAIN jobs :
        /\ jobs[m].type = "Invoices"
        /\ jobs[m].st = "done"
        /\ reader.ns = "reports" /\ reader.phase = "done" /\ reader.cached
        /\ reader.ret < m
        /\ cache["reports"] = NoEntry

(***************************************************************************)
(* SpecTtl: the cache while time passes and the store accepts every purge; *)
(* the writes are of the types whose rules cover the requested routes.     *)
(***************************************************************************)
ReadTypes == {T \in EntityTypes : \E route \in Routes : NamespaceOf(route) = OwnNamespace(T)}
             \cup {"Invoices"}

CommitReadStep == (\E T \in ReadTypes : Commit(T)) /\ OnlyCache

TickStep == Tick /\ OnlyCache

NextTtl ==
    \/ CommitReadStep
    \/ PurgeStep
    \/ ReadStartStep
    \/ ReadComputeStep
    \/ ReadStoreStep
    \/ ReadReturnStep
    \/ ExpireStep
    \/ TickStep

SpecTtl == InitCacheSpec /\ [][NextTtl]_vars

\* the expirations the endpoints are declared with, in seconds
C12_DeclaredTtl == [route \in Routes |-> 60]

\* C12: a response served from the cache comes from an entry stored less than
\* its TTL ago and stored after the most recent purge of its namespace.
C12_NeverServedStale ==
    [][\A route \in Routes :
          (ReadStart(route) /\ reader'.cached) =>
              LET entry == cache[NamespaceOf(route)]
              IN /\ entry # NoEntry
                 /\ reader'.ret = entry.ver
                 /\ (now - entry.t) * TickSeconds < C12_DeclaredTtl[route]
                 /\ entry.gen = PurgeCount(NamespaceOf(route))]_vars

\* a request is answered from an entry that was stored after a purge of its
\* namespace and is half a minute old
C12_Witness ==
    /\ reader.phase = "done" /\ reader.cached
    /\ PurgeCount(reader.ns) >= 1
    /\ cache[reader.ns].gen = PurgeCount(reader.ns)
    /\ cache[reader.ns].ver = reader.ret
    /\ now = cache[reader.ns].t + 1

(***************************************************************************)
(* SpecDirty: purges may fail and are retried; the dispatcher keeps        *)
(* retrying, so a purge that can succeed eventually does.                  *)
(***************************************************************************)
NextDirty ==
    \/ CommitReadStep
    \/ PurgeStep
    \/ PurgeFailStep
    \/ ReadStartStep
    \/ ReadComputeStep
    \/ ReadStoreStep
    \/ ReadReturnStep
    \/ ExpireStep

SpecDirty == InitCacheSpec /\ [][NextDirty]_vars /\ WF_vars(PurgeStep)

\* a purge of the namespace has failed and no retry of it has succeeded yet
C13_PurgePending(ns) == \E m \in DOMAIN jobs : ns \in jobs[m].failed

BackendDownStep == BackendDown /\ OnlyCache

BackendUpStep == BackendUp /\ OnlyCache

NextOpen ==
    \/ CommitReadStep
    \/ PurgeStep
    \/ PurgeFailStep
    \/ ReadStartStep
    \/ ReadComputeStep
    \/ ReadStoreStep
    \/ ReadReturnStep
    \/ ExpireStep
    \/ BackendDownStep
    \/ BackendUpStep

SpecOpen == InitCacheSpec /\ [][NextOpen]_vars

\* C14: Fail open. While the cache backend is unreachable, a read skips the
\* cache and returns the live value, a write still commits, and no request is
\* held up or failed by the cache layer: every step of a request stays possible.
C14_FailOpen ==
    /\ [][/\ \A route \in Routes :
                (ReadStart(route) /\ ~up) => reader'.phase = "bypass" /\ ~reader'.cached
          /\ (ReadCompute /\ reader.phase = "bypass") =>
                reader'.phase = "done" /\ reader'.ret = dbVersion /\ cache' = cache
          /\ (ReadStore /\ ~up) => reader'.phase = "done" /\ cache' = cache]_vars
    /\ [](~up =>
            /\ Len(jobs) < MaxWrites => ENABLED CommitReadStep
            /\ reader.phase = "idle" => ENABLED ReadStartStep
            /\ reader.phase \in {"miss", "bypass"} => ENABLED ReadComputeStep
            /\ reader.phase = "store" => ENABLED ReadStoreStep
            /\ reader.phase = "done" => ENABLED ReadReturnStep)

\* a read was answered with the live value while the backend was unreachable
\* and the namespace held an entry from before the last write
C14_Witness ==
    /\ ~up
    /\ reader.phase = "done" /\ ~reader.cached
    /\ reader.ret = dbVersion
    /\ cache[reader.ns] # NoEntry
    /\ cache[reader.ns].ver < dbVersion

(***************************************************************************)
(* SpecFanout: a hook with any events option and any of the callbacks      *)
(* receives payloads.                                                      *)
(***************************************************************************)
InitFanout ==
    /\ InitBoard({}) /\ MergeIdle /\ HookIdle /\ CacheIdle /\ KeyIdle /\ ButtonIdle /\ PageIdle /\ DashIdle
    /\ invoked = NoPayload
    /\ \E events \in EventsOptions, callbacks \in SUBSET CallbackNames :
          options = [h \in Hooks |->
              IF h = 1 THEN [events |-> events, callbacks |-> callbacks, version |-> 0]
              ELSE PageOptions]

ReceiveStep ==
    /\ \E h \in Hooks, eventType \in EventTypes : Receive(h, eventType)
    /\ UNCHANGED <<boardVars, mergeVars, linkVars, hookVars, cacheVars, keyVars, buttonVars, pageVars, dashVars>>

NextFanout == ReceiveStep

SpecFanout == InitFanout /\ [][NextFanout]_vars

\* the callback that belongs to an event type
C16_CallbackOf ==
    [eventType \in EventTypes |->
        CASE eventType = "INSERT" -> "onInsert"
          [] eventType = "UPDATE" -> "onUpdate"
          [] eventType = "DELETE" -> "onDelete"]

\* C16: Event fan-out is typed by operation. For a received payload only the
\* callback of its eventType is invoked, at most one callback is invoked, and
\* none when the events option is given and lacks the eventType.
C16_TypedFanout ==
    invoked # NoPayload =>
        LET events == options[invoked.hook].events
            names == {x[1] : x \in invoked.called}
        IN /\ names \subseteq {C16_CallbackOf[invoked.eventType]}
           /\ Cardinality(invoked.called) <= 1
           /\ (events.given /\ invoked.eventType \notin events.types) => invoked.called = {}

\* an UPDATE payload reached a hook whose events option lists UPDATE and
\* DELETE and which was given all three callbacks: onUpdate alone ran
C16_Witness ==
    /\ invoked.hook = 1 /\ invoked.eventType = "UPDATE"
    /\ options[1].events = [given |-> TRUE, types |-> {"UPDATE", "DELETE"}]
    /\ options[1].callbacks = CallbackNames
    /\ invoked.called = {<<"onUpdate", 0>>}

\* C19: A cross-column drop confirms what the user sees. Whenever a drag ends
\* with the task displayed in a column different from its status at drag
\* start, exactly one updateTask call is issued for that task, carrying the
\* status of the column in which the task is displayed after the drop.
C19_DropConfirmsDisplay ==
    [][\A c \in Clients : \A over \in OverTargets(tasks[c]) :
          (/\ onDragEnd(c, over)
           /\ Count(tasks'[c], activeTask[c].id) = 1
           /\ StatusIn(tasks'[c], activeTask[c].id) \in columnsId
           /\ StatusIn(tasks'[c], activeTask[c].id) # activeTask[c].status)
          => /\ Len(calls'[c]) = Len(calls[c]) + 1
             /\ calls'[c][Len(calls'[c])].id = activeTask[c].id
             /\ calls'[c][Len(calls'[c])].status = StatusIn(tasks'[c], activeTask[c].id)]_vars

(***************************************************************************)
(* SpecLife: hook instances mount, render again with other props or other  *)
(* callbacks, receive payloads and unmount.                                *)
(***************************************************************************)
OnlyHooks == UNCHANGED <<boardVars, mergeVars, linkVars, cacheVars, keyVars, buttonVars, pageVars, dashVars>>

RerenderStep ==
    /\ OnlyHooks
    /\ \E h \in Hooks, table \in HookTables, filter \in HookFilters :
          \E events \in RenderEvents, sameArray \in BOOLEAN, newCallbacks \in BOOLEAN :
              Rerender(h, table, filter, events, sameArray, newCallbacks)

ReceiveOnChannelStep ==
    OnlyHooks /\ \E h \in Hooks, eventType \in EventTypes : ReceiveOnChannel(h, eventType)

NextLife ==
    \/ MountStep
    \/ UnmountStep
    \/ RerenderStep
    \/ ReceiveOnChannelStep

SpecLife == InitHookSpec /\ [][NextLife]_vars

\* the channels of the client that hook instance h holds
C20_Live(h) == {ch \in channels : ch.id = hooks[h].chan}

\* C20: Channel lifecycle of useSupabaseRealtime. Every mounted hook instance
\* owns exactly one live channel; unmounting removes it; it is replaced (old
\* removed, new created) only when table, filter or events change; a change
\* of the callbacks alone never re-creates it, and a payload received
\* afterwards invokes the latest callbacks.
C20_ChannelLifecycle ==
    /\ [](\A h \in Hooks : hooks[h].mounted => Cardinality(C20_Live(h)) = 1)
    /\ [][\A h \in Hooks :
            /\ Unmount(h) => \A ch \in channels' : ch.id # hooks[h].chan
            /\ (hooks[h].mounted /\ hooks'[h].mounted /\ hooks'[h].chan # hooks[h].chan) =>
                  /\ \/ hooks'[h].table # hooks[h].table
                     \/ hooks'[h].filter # hooks[h].filter
                     \/ options'[h].events # options[h].events
                  /\ \A ch \in channels' : ch.id # hooks[h].chan
            /\ \A eventType \in EventTypes :
                  ReceiveOnChannel(h, eventType) =>
                      \A x \in invoked'.called : x[2] = options[h].version]_vars

(***************************************************************************)
(* SpecKeys: principals read the cached routes with any parameters, and    *)
(* namespaces are cleared.                                                 *)
(***************************************************************************)
InitKeys == InitBoard({}) /\ MergeIdle /\ HookIdle /\ CacheIdle /\ FanIdle /\ KeyIdle /\ ButtonIdle /\ PageIdle /\ DashIdle

OnlyKeys == UNCHANGED <<boardVars, mergeVars, linkVars, hookVars, cacheVars, fanVars, buttonVars, pageVars, dashVars>>

KeyedReadStep == OnlyKeys /\ \E request \in Requests : KeyedRead(request)

KeyedClearStep == OnlyKeys /\ \E ns \in Namespaces : KeyedClear(ns)

NextKeys == KeyedReadStep \/ KeyedClearStep

SpecKeys == InitKeys /\ [][NextKeys]_vars

\* C17: Cache keys are scoped by principal. A response served from the cache
\* was stored for the principal that is reading: for the same route and
\* parameters, what was cached for one principal never reaches another.
C17_PrincipalScoped ==
    response.cached => response.owner = response.request.principal

\* a principal was served from the cache while the store also held, for the
\* same route and parameters, an entry of another principal
C17_Witness ==
    /\ response.cached
    /\ \E e \in keyStore :
          /\ e.key[2] = response.request.route
          /\ e.key[3] = response.request.params
          /\ e.owner # response.request.principal

(***************************************************************************)
(* SpecButton: an AsyncButton without a loading prop is clicked, its       *)
(* promises settle, and its parent enables and disables it.                *)
(***************************************************************************)
InitButton == InitBoard({}) /\ MergeIdle /\ HookIdle /\ CacheIdle /\ FanIdle /\ KeyIdle /\ ButtonIdle /\ PageIdle /\ DashIdle

OnlyButton == UNCHANGED <<boardVars, mergeVars, linkVars, hookVars, cacheVars, fanVars, keyVars, pageVars, dashVars>>

ClickStep == OnlyButton /\ Len(presses) < MaxClicks /\ \E kind \in ClickKinds : handleClick(kind)

SettleStep ==
    OnlyButton /\ \E k \in DOMAIN presses : \E outcome \in {"resolved", "rejected"} : Settle(k, outcome)

SetDisabledStep == OnlyButton /\ \E disabled \in BOOLEAN : SetDisabled(disabled)

NextButton == ClickStep \/ SettleStep \/ SetDisabledStep

SpecButton == InitButton /\ [][NextButton]_vars

C18_Pending == \E k \in DOMAIN presses : presses[k].result = "pending"

\* C18: AsyncButton loading lifecycle. Without a loading prop, the button is
\* in the loading state (disabled, aria-busy) exactly while a promise returned
\* by onClick is pending; once the promise resolves or rejects the button is
\* idle again and disabled only if its disabled prop says so.
C18_LoadingLifecycle ==
    button.externalLoading = "undefined" =>
        /\ C18_Pending =>
              ButtonElement = [disabled |-> TRUE, ariaBusy |-> TRUE, dataState |-> "loading"]
        /\ ~C18_Pending =>
              ButtonElement = [disabled |-> button.disabled, ariaBusy |-> FALSE, dataState |-> "idle"]

\* one click's promise resolved, a later click's promise was rejected, and
\* the button is idle and enabled
C18_Witness ==
    /\ button.externalLoading = "undefined"
    /\ \E j, k \in DOMAIN presses :
          /\ j < k
          /\ presses[j].result = "resolved"
          /\ presses[k].result = "rejected"
    /\ ~C18_Pending
    /\ ButtonElement = [disabled |-> FALSE, ariaBusy |-> FALSE, dataState |-> "idle"]

\* the rows of the list that belong to other tasks than task i
RowsOfOthers(arr, i) == {arr[k] : k \in {j \in DOMAIN arr : arr[j].id # i}}

\* C23: Rollback touches only the failed move. When an updateTask call fails,
\* the revert changes nothing but the dragged task's status: the rows of every
\* other task, as the events applied while the call was in flight left them,
\* are the same after the rollback.
C23_RollbackOnlyFailedMove ==
    [][\A c \in Clients : \A i \in DOMAIN calls[c] :
          ApiFail(c, i) =>
              RowsOfOthers(tasks'[c], calls[c][i].id) =
              RowsOfOthers(tasks[c], calls[c][i].id)]_vars

\* C24: No unsent local status change. When a drag ends, either an updateTask
\* call is issued for the dragged task or the task has the status it had
\* before the drag; in particular when the drag ends without a drop target.
C24_NoUnsentStatusChange ==
    [][\A c \in Clients : \A over \in OverTargets(tasks[c]) :
          (onDragEnd(c, over) /\ findIndex(tasks[c], activeTask[c].id) # -1) =>
              \/ /\ over.type # "None"
                 /\ Len(calls'[c]) = Len(calls[c]) + 1
                 /\ calls'[c][Len(calls'[c])].id = activeTask[c].id
              \/ StatusIn(tasks'[c], activeTask[c].id) = activeTask[c].status]_vars

\* the list with the status of task i left out of the comparison
StatusMasked(arr, i) ==
    [k \in DOMAIN arr |-> IF arr[k].id = i THEN [arr[k] EXCEPT !.status = "any"] ELSE arr[k]]

\* C29: Drag robustness against concurrent deletes. onDragOver never reads a
\* task that is absent from the list, and the list it returns is a permutation
\* of the previous one in which at most the active task's status differs.
C29_DragOverRobust ==
    [][\A c \in Clients : \A over \in OverTargets(tasks[c]) :
          onDragOver(c, over) =>
              /\ ~crashed'[c]
              /\ IsPermutation(StatusMasked(tasks[c], activeTask[c].id),
                               StatusMasked(tasks'[c], activeTask[c].id))]_vars

(***************************************************************************)
(* SpecCreate: tasks are created on the loaded, subscribed tasks page.     *)
(* SpecProject: the project dialog opens and tasks are created in it.      *)
(* SpecLoad: the tasks page mounts while other users write.                *)
(***************************************************************************)
OnlyPage ==
    UNCHANGED <<boardVars, mergeVars, linkVars, hookVars, cacheVars, fanVars, keyVars,
                buttonVars, dashVars>>

OthersIdle ==
    /\ InitBoard({}) /\ MergeIdle /\ HookIdle /\ CacheIdle /\ FanIdle /\ KeyIdle
    /\ ButtonIdle

\* task 1 exists, task 2 does not
OneRow == [i \in TaskIds |-> IF i = 1 THEN "todo" ELSE "absent"]

JoinStep == OnlyPage /\ Join

CreateTaskStep == OnlyPage /\ \E i \in TaskIds : CreateTask(i)

OtherInsertStep == OnlyPage /\ \E i \in TaskIds : OtherInsert(i)

OtherUpdateStep == OnlyPage /\ \E i \in TaskIds, s \in PeerStatuses : OtherUpdate(i, s)

OtherDeleteStep == OnlyPage /\ \E i \in TaskIds : OtherDelete(i)

OnSuccessStep == OnlyPage /\ OnSuccess

FetchServeStep == OnlyPage /\ \E k \in DOMAIN pgFetches : FetchServe(k)

FetchReturnStep == OnlyPage /\ \E k \in DOMAIN pgFetches : FetchReturn(k)

DeliverEventStep == OnlyPage /\ DeliverEvent

RedeliverStep == OnlyPage /\ Redeliver

InitCreate == OthersIdle /\ DashIdle /\ InitLoaded("tasks", NoRows)

NextCreate ==
    \/ CreateTaskStep
    \/ OnSuccessStep
    \/ DeliverEventStep
    \/ RedeliverStep

SpecCreate == InitCreate /\ [][NextCreate]_vars

InitProject == OthersIdle /\ DashIdle /\ InitMounted("project", OneRow)

NextProject ==
    \/ JoinStep
    \/ CreateTaskStep
    \/ OnSuccessStep
    \/ FetchServeStep
    \/ FetchReturnStep
    \/ DeliverEventStep
    \/ RedeliverStep

SpecProject == InitProject /\ [][NextProject]_vars

InitLoad == OthersIdle /\ DashIdle /\ InitMounted("tasks", OneRow)

NextLoad ==
    \/ JoinStep
    \/ OtherInsertStep
    \/ OtherUpdateStep
    \/ OtherDeleteStep
    \/ FetchServeStep
    \/ FetchReturnStep
    \/ DeliverEventStep

SpecLoad == InitLoad /\ [][NextLoad]_vars

\* C21: the project task dialog's list never holds two entries with the same
\* task id, whatever the order of the INSERT event, the onSuccess callback and
\* the loadTasks response of a created task.
C21_ProjectListNoDuplicates ==
    \A i \in TaskIds : Count(pgTasks, i) <= 1

\* C22: on the tasks page a created task is in the list exactly once, when
\* onSuccess has run and its INSERT event has been delivered, in either order
\* and also when the event was delivered more than once.
C22_CreatedExactlyOnce ==
    PageQuiet => \A i \in TaskIds : pgServer[i] # "absent" => Count(pgTasks, i) = 1

\* C26: Convergence after load. Once the fetch has returned, the subscription
\* is joined and every event has been delivered, the list of the tasks page
\* holds the server's tasks: each once, with its committed status, and no other.
C26_ConvergenceAfterLoad ==
    PageQuiet =>
        \A i \in TaskIds :
            IF pgServer[i] = "absent" THEN Count(pgTasks, i) = 0
            ELSE Count(pgTasks, i) = 1 /\ StatusIn(pgTasks, i) = pgServer[i]

(***************************************************************************)
(* SpecDash: the dashboard mounts, writes commit and their events make it  *)
(* reload.                                                                 *)
(***************************************************************************)
OnlyDash ==
    UNCHANGED <<boardVars, mergeVars, linkVars, hookVars, cacheVars, fanVars, keyVars,
                buttonVars, pageVars>>

InitDashSpec == OthersIdle /\ PageIdle /\ InitDash

DashCommitStep == OnlyDash /\ DashCommit

HandleRealtimeUpdateStep == OnlyDash /\ handleRealtimeUpdate

LoadServeStep == OnlyDash /\ \E k \in DOMAIN reloads : LoadServe(k)

LoadReturnStep == OnlyDash /\ \E k \in DOMAIN reloads : LoadReturn(k)

LoadFailStep == OnlyDash /\ \E k \in DOMAIN reloads : LoadFail(k)

NextDash ==
    \/ DashCommitStep
    \/ HandleRealtimeUpdateStep
    \/ LoadServeStep
    \/ LoadReturnStep
    \/ LoadFailStep

SpecDash == InitDashSpec /\ [][NextDash]_vars

\* C27: Dashboard reload ordering. The response of an earlier loadData call
\* never replaces the stats a later call has set, and isRefreshing is true
\* whenever a reload is in flight.
C27_ReloadOrdering ==
    /\ []((\E k \in DOMAIN reloads : reloads[k].isRefresh) => isRefreshing)
    /\ [][\A k \in DOMAIN reloads : LoadReturn(k) => stats'.n >= stats.n]_vars

\* the lead writes whose invalidation has completed
C28_LeadCommits == {m \in DOMAIN jobs : jobs[m].type = "Leads" /\ jobs[m].st = "done"}

\* C28: Dashboard freshness after a lead write. The /reports/dashboard
\* response a reload receives after a lead was created, updated or deleted
\* reflects that write, at the latest once the write's invalidation has
\* completed: it is not served from a reports entry cached before the commit.
C28_DashboardFreshAfterLeadWrite ==
    [][(ReadStart("/reports/dashboard") /\ reader'.cached) =>
          \A m \in C28_LeadCommits : reader'.ret >= m]_vars

\* C25: Teardown isolation. When two mounted subscriptions target the same
\* table, with the same or with different filters, unmounting one leaves the
\* other with its live channel, so events keep reaching it; and on its channel
\* each subscription is bound with its own filter.
C25_TeardownIsolation ==
    /\ [](\A h \in Hooks : \A ch \in C20_Live(h) : \A b \in ch.bindings :
            (hooks[h].mounted /\ b[1] = h) => b[2] = hooks[h].filter)
    /\ [][\A h, g \in Hooks :
            (/\ Unmount(h)
             /\ g # h
             /\ hooks[g].mounted
             /\ hooks[g].table = hooks[h].table
             /\ C20_Live(g) # {})
            => \E ch \in channels' : ch.id = hooks'[g].chan]_vars

(***************************************************************************)
(* SpecControlled: an AsyncButton whose parent supplies, changes and       *)
(* removes the loading prop.                                               *)
(***************************************************************************)
SetLoadingStep == OnlyButton /\ \E loading \in LoadingProps : SetLoading(loading)

NextControlled == NextButton \/ SetLoadingStep

SpecControlled == InitButton /\ [][NextControlled]_vars

\* C30: AsyncButton never stays stuck in loading. Once no promise returned by
\* onClick is pending, the internal loading flag is false, whether or not a
\* loading prop was supplied during the click; so a button without a loading
\* prop is then idle.
C30_NeverStuckLoading ==
    ~C18_Pending =>
        /\ ~button.internalLoading
        /\ button.externalLoading = "undefined" => ButtonElement.dataState = "idle"

====
